---- MODULE Spec2Model ----
(***************************************************************************)
(* A model of the generic red-black tree of src/RBTree.c: the heap of      *)
(* Node structs, the RBTree struct, and the public operations newRBTree,   *)
(* addToRBTree, containsRBTree, forEachRBTree and freeRBTree together with *)
(* the static helpers they call.  Every operation is one atomic action,    *)
(* since the library is single threaded and runs each call to completion.  *)
(***************************************************************************)
EXTENDS Integers, Sequences, FiniteSets, TLC

\* ------------------------------ bounds ---------------------------------
\* number of distinct non-NULL data items the client may insert
MaxKeys == 7
\* number of addToRBTree calls whose arguments the call history records
MaxHist == 3

\* ------------------------- program constants ---------------------------
START_SIZE == 0
RIGHT_CHILD == 1
LEFT_CHILD == -1
FAILURE == 0
SUCCESS == 1
\* the NULL pointer, as a Node* and as a void* data pointer
NULL == 0
\* the return value that stands for a call that faulted instead of returning
FAULT == -1
RED == "RED"
BLACK == "BLACK"

\* --------------------------- the data items ----------------------------
\* The data pointers a client passes: NULL and MaxKeys items 10, 20, ...
Keys == {10 * i : i \in 1..MaxKeys}
Data == Keys \cup {NULL}

\* The CompareFunc given to newRBTree: a consistent total order on Data
\* that places the NULL item first.  Only the sign of the result is used.
compFunc(a, b) == a - b

\* ------------------------------ the heap -------------------------------
\* One address per data item plus one, so that malloc can always succeed
\* for the node of a duplicate that is freed again before the call returns.
Addr == 1..(MaxKeys + 2)

\* The content of a block that is not allocated.
FreeCell == [alloc |-> FALSE, data |-> NULL, color |-> RED,
             left |-> NULL, right |-> NULL, parent |-> NULL]

\* The allocator: a fresh block for a node that will hold d.  The address
\* is the one reserved for d when it is free and the last address otherwise
\* (the reserved one is taken exactly when d is already stored).
Malloc(h, d) ==
    IF ~h[d \div 10 + 1].alloc THEN d \div 10 + 1 ELSE MaxKeys + 2

VARIABLES
    heap,      \* Addr -> Node struct, or FreeCell
    root,      \* tree->root
    size,      \* tree->size
    pc,        \* "live": tree constructed, "freed": after freeRBTree,
               \* "crashed": the process faulted
    op,        \* the last call: its name, argument and return value
    visited,   \* the data items the visitor saw, if the last call was
               \* forEachRBTree, in order
    calls,     \* the repair steps made, if the last call was addToRBTree
    freeLog,   \* what freeRBTree did to the nodes and the data, in order
    hist,      \* arguments of the addToRBTree calls so far (bounded)
    nSuccess   \* number of addToRBTree calls that returned SUCCESS

vars == <<heap, root, size, pc, op, visited, calls, freeLog, hist, nSuccess>>

\* The call history once more than MaxHist calls were made.
Overflow == <<-1>>

Record(h, d) ==
    IF h = Overflow \/ Len(h) >= MaxHist THEN Overflow ELSE Append(h, d)

\* ----------------------------- newRBTree -------------------------------
Init ==
    /\ heap = [a \in Addr |-> FreeCell]
    /\ root = NULL
    /\ size = START_SIZE
    /\ pc = "live"
    /\ op = [name |-> "newRBTree", arg |-> NULL, ret |-> SUCCESS]
    /\ visited = <<>>
    /\ calls = <<>>
    /\ freeLog = <<>>
    /\ hist = <<>>
    /\ nSuccess = 0

\* ---------------------------- isRightChild -----------------------------
\* isRightChild with the sides confused: compares with parent->left
isRightChildOfLeft(h, toCheck) ==
    LET parent == h[toCheck].parent IN
    IF parent = NULL THEN 0
    ELSE IF h[parent].left # NULL
            /\ compFunc(h[h[parent].left].data, h[toCheck].data) = 0
         THEN RIGHT_CHILD
         ELSE LEFT_CHILD

isRightChild(h, toCheck) ==
    LET parent == h[toCheck].parent IN
    IF parent = NULL THEN 0
    ELSE IF h[parent].right # NULL
            /\ compFunc(h[h[parent].right].data, h[toCheck].data) = 0
         THEN RIGHT_CHILD
         ELSE LEFT_CHILD

\* ------------------------------ findUncle ------------------------------
findUncle(h, toFind) ==
    IF isRightChild(h, h[toFind].parent) = RIGHT_CHILD
    THEN h[h[h[toFind].parent].parent].left
    ELSE h[h[h[toFind].parent].parent].right

\* ---------------------------- leftRightSwitch --------------------------
\* leftRightSwitch that does not hang the parent under the new node
leftRightSwitchDropParent(h, newNode, parent, grandparent) ==
    LET h1 == [h EXCEPT ![parent].right = h[newNode].left]
        h2 == IF h1[newNode].left # NULL
              THEN [h1 EXCEPT ![h1[newNode].left].parent = parent]
              ELSE h1
        h4 == [h2 EXCEPT ![parent].parent = newNode]
        h5 == [h4 EXCEPT ![newNode].parent = grandparent]
    IN  [h5 EXCEPT ![grandparent].left = newNode]

leftRightSwitch(h, newNode, parent, grandparent) ==
    LET h1 == [h EXCEPT ![parent].right = h[newNode].left]
        h2 == IF h1[newNode].left # NULL
              THEN [h1 EXCEPT ![h1[newNode].left].parent = parent]
              ELSE h1
        h3 == [h2 EXCEPT ![newNode].left = parent]
        h4 == [h3 EXCEPT ![parent].parent = newNode]
        h5 == [h4 EXCEPT ![newNode].parent = grandparent]
    IN  [h5 EXCEPT ![grandparent].left = newNode]

\* ---------------------------- rightLeftSwitch --------------------------
rightLeftSwitch(h, newNode, parent, grandparent) ==
    LET h1 == [h EXCEPT ![parent].left = h[newNode].right]
        h2 == IF h1[newNode].right # NULL
              THEN [h1 EXCEPT ![h1[newNode].right].parent = parent]
              ELSE h1
        h3 == [h2 EXCEPT ![newNode].right = parent]
        h4 == [h3 EXCEPT ![parent].parent = newNode]
        h5 == [h4 EXCEPT ![grandparent].right = newNode]
    IN  [h5 EXCEPT ![newNode].parent = grandparent]

\* A tree under repair: t.heap, t.root and t.calls, the helper calls made.

\* ----------------------------- leftLeftSwitch --------------------------
\* leftLeftSwitch that moves the parent's right subtree under the
\* grandparent without setting that subtree's parent link
leftLeftSwitchStaleInner(t, parent, grandparent) ==
    LET h1 == [t.heap EXCEPT ![parent].parent = t.heap[grandparent].parent]
        r1 == IF h1[parent].parent = NULL THEN parent ELSE t.root
        h2 == IF h1[parent].parent = NULL THEN h1
              ELSE IF isRightChild(h1, grandparent) = RIGHT_CHILD
                   THEN [h1 EXCEPT ![h1[grandparent].parent].right = parent]
                   ELSE [h1 EXCEPT ![h1[grandparent].parent].left = parent]
        h3 == [h2 EXCEPT ![grandparent].left = h2[parent].right]
        h5 == [h3 EXCEPT ![parent].right = grandparent]
        h6 == [h5 EXCEPT ![grandparent].parent = parent]
    IN  [heap |-> h6, root |-> r1, calls |-> Append(t.calls, "leftLeftSwitch")]

leftLeftSwitch(t, parent, grandparent) ==
    LET h1 == [t.heap EXCEPT ![parent].parent = t.heap[grandparent].parent]
        r1 == IF h1[parent].parent = NULL THEN parent ELSE t.root
        h2 == IF h1[parent].parent = NULL THEN h1
              ELSE IF isRightChild(h1, grandparent) = RIGHT_CHILD
                   THEN [h1 EXCEPT ![h1[grandparent].parent].right = parent]
                   ELSE [h1 EXCEPT ![h1[grandparent].parent].left = parent]
        h3 == [h2 EXCEPT ![grandparent].left = h2[parent].right]
        h4 == IF h3[parent].right # NULL
              THEN [h3 EXCEPT ![h3[parent].right].parent = grandparent]
              ELSE h3
        h5 == [h4 EXCEPT ![parent].right = grandparent]
        h6 == [h5 EXCEPT ![grandparent].parent = parent]
    IN  [heap |-> h6, root |-> r1, calls |-> Append(t.calls, "leftLeftSwitch")]

\* ---------------------------- rightRightSwitch -------------------------
\* rightRightSwitch that leaves tree->root alone
rightRightSwitchKeepRoot(t, parent, grandparent) ==
    LET h1 == [t.heap EXCEPT ![parent].parent = t.heap[grandparent].parent]
        h2 == IF h1[parent].parent = NULL THEN h1
              ELSE IF isRightChild(h1, grandparent) = RIGHT_CHILD
                   THEN [h1 EXCEPT ![h1[grandparent].parent].right = parent]
                   ELSE [h1 EXCEPT ![h1[grandparent].parent].left = parent]
        h3 == [h2 EXCEPT ![grandparent].right = h2[parent].left]
        h4 == IF h3[parent].left # NULL
              THEN [h3 EXCEPT ![h3[parent].left].parent = grandparent]
              ELSE h3
        h5 == [h4 EXCEPT ![parent].left = grandparent]
        h6 == [h5 EXCEPT ![grandparent].parent = parent]
    IN  [heap |-> h6, root |-> t.root,
         calls |-> Append(t.calls, "rightRightSwitch")]

rightRightSwitch(t, parent, grandparent) ==
    LET h1 == [t.heap EXCEPT ![parent].parent = t.heap[grandparent].parent]
        r1 == IF h1[parent].parent = NULL THEN parent ELSE t.root
        h2 == IF h1[parent].parent = NULL THEN h1
              ELSE IF isRightChild(h1, grandparent) = RIGHT_CHILD
                   THEN [h1 EXCEPT ![h1[grandparent].parent].right = parent]
                   ELSE [h1 EXCEPT ![h1[grandparent].parent].left = parent]
        h3 == [h2 EXCEPT ![grandparent].right = h2[parent].left]
        h4 == IF h3[parent].left # NULL
              THEN [h3 EXCEPT ![h3[parent].left].parent = grandparent]
              ELSE h3
        h5 == [h4 EXCEPT ![parent].left = grandparent]
        h6 == [h5 EXCEPT ![grandparent].parent = parent]
    IN  [heap |-> h6, root |-> r1, calls |-> Append(t.calls, "rightRightSwitch")]

\* ----------------------------- modifyRedBlack --------------------------
modifyRedBlack(t, newNode, parent, grandparent) ==
    LET nChildType == isRightChild(t.heap, newNode)
        pChildType == isRightChild(t.heap, parent)
        t1 == IF pChildType = LEFT_CHILD
              THEN IF nChildType = RIGHT_CHILD
                   THEN leftLeftSwitch(
                          [t EXCEPT !.heap = leftRightSwitch(t.heap, newNode,
                                                   parent, grandparent),
                                    !.calls = Append(t.calls, "leftRightSwitch")],
                          newNode, grandparent)
                   ELSE leftLeftSwitch(t, parent, grandparent)
              ELSE IF pChildType = RIGHT_CHILD
              THEN IF nChildType = LEFT_CHILD
                   THEN rightRightSwitch(
                          [t EXCEPT !.heap = rightLeftSwitch(t.heap, newNode,
                                                   parent, grandparent),
                                    !.calls = Append(t.calls, "rightLeftSwitch")],
                          newNode, grandparent)
                   ELSE rightRightSwitch(t, parent, grandparent)
              ELSE t
        \* the local variable parent after the optional reassignment
        p1 == IF (pChildType = LEFT_CHILD /\ nChildType = RIGHT_CHILD)
                 \/ (pChildType = RIGHT_CHILD /\ nChildType = LEFT_CHILD)
              THEN newNode ELSE parent
    IN  [t1 EXCEPT !.heap = [t1.heap EXCEPT ![p1].color = BLACK,
                                            ![grandparent].color = RED]]

\* ------------------------------- modifyNode ----------------------------
RECURSIVE modifyNode(_, _)
modifyNode(t, toModify) ==
    IF toModify = t.root
    THEN [t EXCEPT !.heap = [t.heap EXCEPT ![toModify].color = BLACK]]
    ELSE LET parent == t.heap[toModify].parent IN
         IF t.heap[parent].color = BLACK
         THEN t
         ELSE LET uncle == findUncle(t.heap, toModify)
                  grandparent == t.heap[parent].parent
              IN  IF uncle # NULL /\ t.heap[uncle].color = RED
                  THEN modifyNode(
                         [t EXCEPT !.heap = [t.heap EXCEPT
                                               ![parent].color = BLACK,
                                               ![uncle].color = BLACK,
                                               ![grandparent].color = RED],
                                   !.calls = Append(t.calls, "recolour")],
                         grandparent)
                  ELSE modifyRedBlack(t, toModify, parent, grandparent)

\* addNewNode that passes the two items to compFunc in the other order
RECURSIVE addNewNodeSwapped(_, _, _)
addNewNodeSwapped(h, compToNode, addNode) ==
    LET compare == compFunc(h[compToNode].data, h[addNode].data) IN
    IF compare = 0
    THEN [ret |-> FAILURE, heap |-> h]
    ELSE IF compare < 0
    THEN IF h[compToNode].left = NULL
         THEN [ret |-> SUCCESS,
               heap |-> [h EXCEPT ![compToNode].left = addNode,
                                  ![addNode].parent = compToNode]]
         ELSE addNewNodeSwapped(h, h[compToNode].left, addNode)
    ELSE IF h[compToNode].right = NULL
         THEN [ret |-> SUCCESS,
               heap |-> [h EXCEPT ![compToNode].right = addNode,
                                  ![addNode].parent = compToNode]]
         ELSE addNewNodeSwapped(h, h[compToNode].right, addNode)

\* addNewNode that sends an equal item to the left instead of failing
RECURSIVE addNewNodeNoEqual(_, _, _)
addNewNodeNoEqual(h, compToNode, addNode) ==
    LET compare == compFunc(h[addNode].data, h[compToNode].data) IN
    IF compare <= 0
    THEN IF h[compToNode].left = NULL
         THEN [ret |-> SUCCESS,
               heap |-> [h EXCEPT ![compToNode].left = addNode,
                                  ![addNode].parent = compToNode]]
         ELSE addNewNodeNoEqual(h, h[compToNode].left, addNode)
    ELSE IF h[compToNode].right = NULL
         THEN [ret |-> SUCCESS,
               heap |-> [h EXCEPT ![compToNode].right = addNode,
                                  ![addNode].parent = compToNode]]
         ELSE addNewNodeNoEqual(h, h[compToNode].right, addNode)

\* ------------------------------- addNewNode ----------------------------
\* Returns the return value and the heap after the descent.
RECURSIVE addNewNode(_, _, _)
addNewNode(h, compToNode, addNode) ==
    LET compare == compFunc(h[addNode].data, h[compToNode].data) IN
    IF compare = 0
    THEN [ret |-> FAILURE, heap |-> h]
    ELSE IF compare < 0
    THEN IF h[compToNode].left = NULL
         THEN [ret |-> SUCCESS,
               heap |-> [h EXCEPT ![compToNode].left = addNode,
                                  ![addNode].parent = compToNode]]
         ELSE addNewNode(h, h[compToNode].left, addNode)
    ELSE IF h[compToNode].right = NULL
         THEN [ret |-> SUCCESS,
               heap |-> [h EXCEPT ![compToNode].right = addNode,
                                  ![addNode].parent = compToNode]]
         ELSE addNewNode(h, h[compToNode].right, addNode)

\* ------------------------------- makeNewNode ---------------------------
makeNewNode(h, a, data) ==
    [h EXCEPT ![a] = [alloc |-> TRUE, data |-> data, color |-> RED,
                      left |-> NULL, right |-> NULL, parent |-> NULL]]

\* free(p): the block is given back to the allocator
free(h, a) == [h EXCEPT ![a] = FreeCell]

\* ------------------------------- addToRBTree ---------------------------
\* The call whose malloc fails: FAILURE, nothing changes.
AddToRBTreeNoMem(data) ==
    /\ pc = "live"
    /\ op' = [name |-> "addToRBTree", arg |-> data, ret |-> FAILURE]
    /\ hist' = Record(hist, data)
    /\ calls' = <<>>
    /\ visited' = <<>>
    /\ UNCHANGED <<heap, root, size, pc, freeLog, nSuccess>>

\* addToRBTree that counts the item before it knows whether it was added
addToRBTreeCountsFirst(h, r, sz, data) ==
    LET newNode == Malloc(h, data)
        h0 == makeNewNode(h, newNode, data)
        added == IF r = NULL
                 THEN [ret |-> SUCCESS, heap |-> h0]
                 ELSE addNewNode(h0, r, newNode)
        r0 == IF r = NULL THEN newNode ELSE r
    IN  IF added.ret = 0
        THEN [heap |-> free(added.heap, newNode), root |-> r, size |-> sz + 1,
              ret |-> FAILURE, calls |-> <<>>]
        ELSE LET t == modifyNode([heap |-> added.heap, root |-> r0,
                                  calls |-> <<>>], newNode)
             IN  [heap |-> t.heap, root |-> t.root, size |-> sz + 1,
                  ret |-> SUCCESS, calls |-> t.calls]

\* The call whose malloc succeeds.  Returns the tree after the call, the
\* return value and the repair steps made.
addToRBTree(h, r, sz, data) ==
    LET newNode == Malloc(h, data)
        h0 == makeNewNode(h, newNode, data)
        added == IF r = NULL
                 THEN [ret |-> SUCCESS, heap |-> h0]
                 ELSE addNewNode(h0, r, newNode)
        r0 == IF r = NULL THEN newNode ELSE r
    IN  IF added.ret = 0
        THEN [heap |-> free(added.heap, newNode), root |-> r, size |-> sz,
              ret |-> FAILURE, calls |-> <<>>]
        ELSE LET t == modifyNode([heap |-> added.heap, root |-> r0,
                                  calls |-> <<>>], newNode)
             IN  [heap |-> t.heap, root |-> t.root, size |-> sz + 1,
                  ret |-> SUCCESS, calls |-> t.calls]

AddToRBTree(data) ==
    /\ pc = "live"
    /\ LET res == addToRBTree(heap, root, size, data) IN
       /\ heap' = res.heap
       /\ root' = res.root
       /\ size' = res.size
       /\ calls' = res.calls
       /\ op' = [name |-> "addToRBTree", arg |-> data, ret |-> res.ret]
       /\ nSuccess' = IF res.ret = FAILURE THEN nSuccess ELSE nSuccess + 1
    /\ hist' = Record(hist, data)
    /\ visited' = <<>>
    /\ UNCHANGED <<pc, freeLog>>

\* ------------------------------ containsRBTree -------------------------
\* The while loop, started at curNode.
RECURSIVE containsLoop(_, _, _)
containsLoop(h, curNode, data) ==
    IF curNode # NULL /\ h[curNode].data # NULL
    THEN LET comp == compFunc(h[curNode].data, data) IN
         IF comp = 0 THEN SUCCESS
         ELSE IF comp > 0 THEN containsLoop(h, h[curNode].left, data)
         ELSE containsLoop(h, h[curNode].right, data)
    ELSE FAILURE

containsRBTree(h, r, data) ==
    IF data = NULL \/ r = NULL THEN FAILURE ELSE containsLoop(h, r, data)

ContainsRBTree(data) ==
    /\ pc = "live"
    /\ op' = [name |-> "containsRBTree", arg |-> data,
              ret |-> containsRBTree(heap, root, data)]
    /\ visited' = <<>>
    /\ calls' = <<>>
    /\ UNCHANGED <<heap, root, size, pc, freeLog, hist, nSuccess>>

\* ------------------------------ forEachRBTree --------------------------
\* The forEachFunc values a client passes: NULL, or the visitor k that
\* returns 0 on its k-th invocation and non-zero on every other one (its
\* args count the invocations).  No tree of the model has MaxKeys + 2
\* items, so the last visitor never stops.
Visitors == 1..(MaxKeys + 2)

\* func(data, args) of visitor k when seen holds its earlier invocations
func(k, seen) == IF Len(seen) + 1 = k THEN 0 ELSE 1

\* forEachNode that ignores what the walk of the left subtree returned
RECURSIVE forEachNodeIgnoreLeft(_, _, _, _)
forEachNodeIgnoreLeft(h, node, k, seen) ==
    LET l == IF h[node].left # NULL
             THEN forEachNodeIgnoreLeft(h, h[node].left, k, seen)
             ELSE [ret |-> SUCCESS, seen |-> seen]
    IN  IF func(k, l.seen) = 0
        THEN [ret |-> FAILURE, seen |-> Append(l.seen, h[node].data)]
        ELSE IF h[node].right # NULL
        THEN LET r == forEachNodeIgnoreLeft(h, h[node].right, k,
                                  Append(l.seen, h[node].data))
             IN  IF r.ret = FAILURE
                 THEN [ret |-> FAILURE, seen |-> r.seen]
                 ELSE [ret |-> SUCCESS, seen |-> r.seen]
        ELSE [ret |-> SUCCESS, seen |-> Append(l.seen, h[node].data)]

\* Returns the return value and the items the visitor was invoked on.
RECURSIVE forEachNode(_, _, _, _)
forEachNode(h, node, k, seen) ==
    LET l == IF h[node].left # NULL
             THEN forEachNode(h, h[node].left, k, seen)
             ELSE [ret |-> SUCCESS, seen |-> seen]
    IN  IF l.ret = FAILURE
        THEN [ret |-> FAILURE, seen |-> l.seen]
        ELSE IF func(k, l.seen) = 0
        THEN [ret |-> FAILURE, seen |-> Append(l.seen, h[node].data)]
        ELSE IF h[node].right # NULL
        THEN LET r == forEachNode(h, h[node].right, k,
                                  Append(l.seen, h[node].data))
             IN  IF r.ret = FAILURE
                 THEN [ret |-> FAILURE, seen |-> r.seen]
                 ELSE [ret |-> SUCCESS, seen |-> r.seen]
        ELSE [ret |-> SUCCESS, seen |-> Append(l.seen, h[node].data)]

ForEachRBTree(f) ==
    /\ pc = "live"
    /\ IF f = NULL
       THEN /\ op' = [name |-> "forEachRBTree", arg |-> f, ret |-> FAILURE]
            /\ visited' = <<>>
            /\ pc' = pc
       ELSE IF root = NULL
       THEN \* forEachNode reads node->left of a NULL node: undefined
            \* behaviour, so the call faults or returns either value
            \E out \in {FAULT, FAILURE, SUCCESS} :
               /\ op' = [name |-> "forEachRBTree", arg |-> f, ret |-> out]
               /\ visited' = <<>>
               /\ pc' = IF out = FAULT THEN "crashed" ELSE pc
       ELSE LET res == forEachNode(heap, root, f, <<>>) IN
            /\ op' = [name |-> "forEachRBTree", arg |-> f, ret |-> res.ret]
            /\ visited' = res.seen
            /\ pc' = pc
    /\ calls' = <<>>
    /\ UNCHANGED <<heap, root, size, freeLog, hist, nSuccess>>

\* -------------------------------- freeNodes ----------------------------
\* Returns the heap and the log of what was done: "read" a field of a node,
\* "freeFunc" on the data of a node, "free" the node.
Event(e, n, d) == [ev |-> e, node |-> n, data |-> d]

\* freeNodes that releases the node before it walks the right subtree
RECURSIVE freeNodesEarly(_, _, _)
freeNodesEarly(h, node, log) ==
    IF node = NULL THEN [heap |-> h, log |-> log]
    ELSE
    LET s0 == [heap |-> h, log |-> Append(log, Event("read", node, NULL))]
        s1 == IF h[node].left # NULL
              THEN freeNodesEarly(s0.heap, h[node].left, s0.log)
              ELSE s0
        s4 == [s1 EXCEPT !.log = Append(s1.log, Event("read", node, NULL))]
        s5 == IF s4.heap[node].data # NULL
              THEN [heap |-> [s4.heap EXCEPT ![node].data = NULL],
                    log |-> Append(s4.log,
                              Event("freeFunc", node, s4.heap[node].data))]
              ELSE s4
        s6 == [heap |-> free(s5.heap, node),
               log |-> Append(s5.log, Event("free", node, NULL))]
        s7 == [s6 EXCEPT !.log = Append(s6.log, Event("read", node, NULL))]
    IN  IF s7.heap[node].right # NULL
        THEN freeNodesEarly(s7.heap, s7.heap[node].right, s7.log)
        ELSE s7

RECURSIVE freeNodes(_, _, _)
freeNodes(h, node, log) ==
    IF node = NULL THEN [heap |-> h, log |-> log]
    ELSE
    LET s0 == [heap |-> h, log |-> Append(log, Event("read", node, NULL))]
        s1 == IF h[node].left # NULL
              THEN freeNodes(s0.heap, h[node].left, s0.log)
              ELSE s0
        s2 == [s1 EXCEPT !.log = Append(s1.log, Event("read", node, NULL))]
        s3 == IF s2.heap[node].right # NULL
              THEN freeNodes(s2.heap, s2.heap[node].right, s2.log)
              ELSE s2
        s4 == [s3 EXCEPT !.log = Append(s3.log, Event("read", node, NULL))]
        s5 == IF s4.heap[node].data # NULL
              THEN [heap |-> [s4.heap EXCEPT ![node].data = NULL],
                    log |-> Append(s4.log,
                              Event("freeFunc", node, s4.heap[node].data))]
              ELSE s4
    IN  [heap |-> free(s5.heap, node),
         log |-> Append(s5.log, Event("free", node, NULL))]

\* -------------------------------- freeRBTree ---------------------------
FreeRBTree ==
    /\ pc = "live"
    /\ LET res == IF root # NULL
                  THEN freeNodes(heap, root, <<>>)
                  ELSE [heap |-> heap, log |-> <<>>]
       IN  /\ heap' = res.heap
           /\ freeLog' = res.log
    /\ pc' = "freed"
    /\ op' = [name |-> "freeRBTree", arg |-> NULL, ret |-> SUCCESS]
    /\ visited' = <<>>
    /\ calls' = <<>>
    /\ UNCHANGED <<root, size, hist, nSuccess>>

\* -------------------------------- newRBTree ----------------------------
\* The client constructs the next tree once the previous one is freed.
NewRBTree ==
    /\ pc = "freed"
    /\ heap' = [a \in Addr |-> FreeCell]
    /\ root' = NULL
    /\ size' = START_SIZE
    /\ pc' = "live"
    /\ op' = [name |-> "newRBTree", arg |-> NULL, ret |-> SUCCESS]
    /\ visited' = <<>>
    /\ calls' = <<>>
    /\ freeLog' = <<>>
    /\ hist' = <<>>
    /\ nSuccess' = 0

Next ==
    \/ \E d \in Data : AddToRBTree(d)
    \/ \E d \in Data : AddToRBTreeNoMem(d)
    \/ \E d \in Data : ContainsRBTree(d)
    \/ \E f \in Visitors \cup {NULL} : ForEachRBTree(f)
    \/ FreeRBTree
    \/ NewRBTree

Spec == Init /\ [][Next]_vars

\* ------------------------ reading a tree off the heap ------------------
\* The child links of the nodes of S that are not NULL.
Children(h, S) ==
    {h[n].left : n \in S} \cup {h[n].right : n \in S}

\* The nodes reachable from the nodes of S along child links.
RECURSIVE Grow(_, _)
Grow(h, S) ==
    LET S2 == S \cup (Children(h, S) \ {NULL}) IN
    IF S2 = S THEN S ELSE Grow(h, S2)

\* The nodes of the subtree at n.
Subtree(h, n) == IF n = NULL THEN {} ELSE Grow(h, {n})

\* The number of BLACK nodes on every path from n down to a NULL child, or
\* -1 when two such paths differ (or a path is longer than the heap).
RECURSIVE BlackHeight(_, _, _)
BlackHeight(h, n, fuel) ==
    IF n = NULL THEN 0
    ELSE IF fuel = 0 THEN -1
    ELSE LET l == BlackHeight(h, h[n].left, fuel - 1)
             r == BlackHeight(h, h[n].right, fuel - 1)
         IN  IF l = -1 \/ r = -1 \/ l # r THEN -1
             ELSE l + (IF h[n].color = BLACK THEN 1 ELSE 0)

NoRedRed(h, r) ==
    \A n \in Subtree(h, r) :
        h[n].color = RED =>
            /\ h[n].left # NULL => h[h[n].left].color = BLACK
            /\ h[n].right # NULL => h[h[n].right].color = BLACK

\* Every node has only smaller items to its left and greater to its right.
Ordered(h, r) ==
    \A n \in Subtree(h, r) :
        /\ \A m \in Subtree(h, h[n].left) : compFunc(h[m].data, h[n].data) < 0
        /\ \A m \in Subtree(h, h[n].right) : compFunc(h[m].data, h[n].data) > 0

\* A sequence of items in strictly ascending comparator order.
Ascending(seq) ==
    \A i \in 1..(Len(seq) - 1) : compFunc(seq[i], seq[i + 1]) < 0

\* The items of the nodes that are allocated: those added successfully.
Stored(h) == {h[a].data : a \in {x \in Addr : h[x].alloc}}

\* ------------------------------- C1 ------------------------------------
\* C1: after every addToRBTree call, every path from the root to a NULL
\* child passes the same number of BLACK nodes and no RED node has a RED
\* child.
C1_Balance ==
    pc = "live" =>
        /\ BlackHeight(heap, root, Cardinality(Addr)) # -1
        /\ NoRedRed(heap, root)

\* a recolouring went up the tree and ended in a rotation below the root
\* that moved a non-empty inner subtree
C1_Witness ==
    /\ pc = "live"
    /\ op.name = "addToRBTree" /\ op.ret = SUCCESS
    /\ Len(calls) = 2 /\ calls[1] = "recolour"
    /\ size = 8
    /\ \E n \in Subtree(heap, root) :
          /\ heap[n].color = RED /\ heap[n].parent # NULL
          /\ heap[n].left # NULL /\ heap[n].right # NULL

\* ------------------------------- C2 ------------------------------------
\* C2: after every addToRBTree call each node's left subtree holds only
\* strictly smaller items and its right subtree only strictly greater ones,
\* and forEachRBTree with a visitor that never stops visits every stored
\* item in strictly ascending order.
C2_Ordering ==
    pc = "live" =>
        /\ Ordered(heap, root)
        /\ (op.name = "forEachRBTree" /\ op.ret = SUCCESS /\ root # NULL) =>
              /\ Ascending(visited)
              /\ {visited[i] : i \in 1..Len(visited)} = Stored(heap)
              /\ Len(visited) = Cardinality(Stored(heap))

\* a full traversal of a tree that was rebuilt by rotations
C2_Witness ==
    /\ pc = "live"
    /\ op.name = "forEachRBTree" /\ op.ret = SUCCESS
    /\ Len(visited) = 8
    /\ heap[root].data = 40

\* ------------------------------- C3 ------------------------------------
\* C3: after every addToRBTree call on a non-empty tree the root is BLACK.
C3_RootBlack ==
    (pc = "live" /\ root # NULL) => heap[root].color = BLACK

\* a rotation has just installed a new root
C3_Witness ==
    /\ pc = "live"
    /\ op.name = "addToRBTree" /\ op.ret = SUCCESS
    /\ size = 3
    /\ calls = <<"rightRightSwitch">>
    /\ heap[root].data = 20

\* ------------------------------- C4 ------------------------------------
\* C4: containsRBTree returns non-zero for every item that was added
\* successfully and 0 for every item that equals no added item.
C4_Membership ==
    (pc = "live" /\ op.name = "containsRBTree") =>
        (op.ret # 0 <=> op.arg \in Stored(heap))

\* ------------------------------- C5 ------------------------------------
\* C5: addToRBTree with an item that compares equal to a stored one returns
\* FAILURE and leaves size, root and every node as they were, and the free
\* function is not invoked.
C5_DuplicateRejected ==
    [][(pc = "live" /\ op'.name = "addToRBTree" /\ op'.arg \in Stored(heap)) =>
          /\ op'.ret = FAILURE
          /\ size' = size
          /\ root' = root
          /\ heap' = heap
          /\ freeLog' = freeLog]_vars

\* a duplicate of an item deep in a tree of eight was rejected
C5_Witness ==
    /\ pc = "live"
    /\ op.name = "addToRBTree" /\ op.ret = FAILURE
    /\ op.arg \in Stored(heap)
    /\ size = 8
    /\ \E n \in Subtree(heap, root) :
          /\ heap[n].data = op.arg
          /\ heap[n].left = NULL /\ heap[n].right = NULL

\* ------------------------------- C6 ------------------------------------
\* C6: tree->size equals the number of addToRBTree calls that returned
\* SUCCESS and the number of nodes reachable from tree->root; a call that
\* returns FAILURE leaves the number of successes, and so size, as it was.
C6_Size ==
    pc = "live" =>
        /\ size = nSuccess
        /\ size = Cardinality(Subtree(heap, root))

\* a rejected duplicate in a tree of five
C6_Witness ==
    /\ pc = "live"
    /\ op.name = "addToRBTree" /\ op.ret = FAILURE
    /\ size = 5 /\ nSuccess = 5
    /\ Cardinality(Subtree(heap, root)) = 5

\* ------------------------------- C7 ------------------------------------
\* C7: forEachRBTree on an empty tree with a non-NULL visitor returns
\* SUCCESS without invoking the visitor and without faulting.
C7_EmptyTraversal ==
    (op.name = "forEachRBTree" /\ op.arg # NULL /\ root = NULL) =>
        /\ pc = "live"
        /\ op.ret = SUCCESS
        /\ visited = <<>>

\* ------------------------------- C8 ------------------------------------
\* C8: on a tree of n items, a visitor that stops on its k-th invocation,
\* 1 <= k <= n, makes forEachRBTree return FAILURE after exactly k
\* invocations, on the k smallest items in ascending order.
C8_EarlyStop ==
    (pc = "live" /\ op.name = "forEachRBTree" /\ root # NULL
       /\ op.arg \in 1..Cardinality(Stored(heap))) =>
        /\ op.ret = FAILURE
        /\ Len(visited) = op.arg
        /\ Ascending(visited)
        /\ {visited[i] : i \in 1..Len(visited)} \subseteq Stored(heap)
        /\ \A d \in Stored(heap) \ {visited[i] : i \in 1..Len(visited)} :
              \A i \in 1..Len(visited) : compFunc(visited[i], d) < 0

\* the visitor stopped on the fifth of eight items
C8_Witness ==
    /\ pc = "live"
    /\ op.name = "forEachRBTree" /\ op.arg = 5 /\ op.ret = FAILURE
    /\ Cardinality(Stored(heap)) = 8
    /\ Len(visited) = 5

\* ------------------------------- C9 ------------------------------------
\* The positions of freeLog where event e was done to node n.
At(log, e, n) == {i \in 1..Len(log) : log[i].ev = e /\ log[i].node = n}

\* The positions of freeLog that concern a node of S.
About(log, S) == {i \in 1..Len(log) : log[i].node \in S}

\* C9: freeRBTree invokes the free function exactly once on each stored
\* non-NULL item and releases every node exactly once, the left and the
\* right subtree of a node before the node's item and the node itself, and
\* touches no node after its release.
C9_Teardown ==
    [][(pc = "live" /\ pc' = "freed") =>
          /\ \A a \in Addr : ~heap'[a].alloc
          /\ \A i \in 1..Len(freeLog') : heap[freeLog'[i].node].alloc
          /\ \A n \in {a \in Addr : heap[a].alloc} :
                /\ Cardinality(At(freeLog', "free", n)) = 1
                /\ Cardinality(At(freeLog', "freeFunc", n)) =
                      (IF heap[n].data # NULL THEN 1 ELSE 0)
                /\ \A i \in At(freeLog', "freeFunc", n) :
                      freeLog'[i].data = heap[n].data
                /\ \A i \in About(freeLog', {n}) :
                      \A j \in At(freeLog', "free", n) : i <= j
                /\ \A i \in About(freeLog', Subtree(heap, heap[n].left)) :
                      /\ \A j \in About(freeLog',
                                        Subtree(heap, heap[n].right)) : i < j
                      /\ \A j \in At(freeLog', "freeFunc", n)
                                  \cup At(freeLog', "free", n) : i < j
                /\ \A i \in About(freeLog', Subtree(heap, heap[n].right)) :
                      \A j \in At(freeLog', "freeFunc", n)
                                  \cup At(freeLog', "free", n) : i < j]_vars

\* a tree of eight nodes, one of them holding the NULL item, was freed
C9_Witness ==
    /\ pc = "freed"
    /\ size = 8
    /\ Cardinality({i \in 1..Len(freeLog) : freeLog[i].ev = "free"}) = 8
    /\ Cardinality({i \in 1..Len(freeLog) : freeLog[i].ev = "freeFunc"}) = 7

\* ------------------------------- C10 -----------------------------------
\* The state right after the calls addToRBTree 30, 10, 20 on a new tree.
After301020 ==
    /\ pc = "live"
    /\ hist = <<30, 10, 20>>
    /\ op.name = "addToRBTree"
    /\ size = 3

\* 20 is the BLACK root, 10 its RED left and 30 its RED right child.
Shape201030 ==
    /\ root # NULL
    /\ heap[root].data = 20 /\ heap[root].color = BLACK
    /\ heap[root].left # NULL /\ heap[root].right # NULL
    /\ heap[heap[root].left].data = 10 /\ heap[heap[root].left].color = RED
    /\ heap[heap[root].right].data = 30 /\ heap[heap[root].right].color = RED
    /\ Cardinality(Subtree(heap, root)) = 3

\* C10 as stated: adding 30, 10, 20 runs the right-left case and leaves 20
\* as the BLACK root with the RED children 10 and 30.
C10_RightLeft ==
    After301020 =>
        /\ \E i \in 1..Len(calls) : calls[i] = "rightLeftSwitch"
        /\ Shape201030

\* C10: adding 30, 10, 20 runs the left-right case (the parent 10 is the
\* left child of 30, the new node 20 the right child of 10: leftRightSwitch
\* and then leftLeftSwitch) and leaves 20 as the BLACK root with the RED
\* children 10 and 30.
C10_LeftRight ==
    After301020 =>
        /\ calls = <<"leftRightSwitch", "leftLeftSwitch">>
        /\ Shape201030

C10_Witness ==
    /\ After301020
    /\ calls # <<>>

\* ------------------------------- C11 -----------------------------------
\* The nodes whose left or right link points to n.
LinksTo(h, n) ==
    {<<m, "left">> : m \in {x \in Addr : h[x].alloc /\ h[x].left = n}}
    \cup {<<m, "right">> : m \in {x \in Addr : h[x].alloc /\ h[x].right = n}}

\* C11: after every addToRBTree call the root has no parent, the left and
\* the right child of every node reachable from the root have that node as
\* their parent, and every node is reachable from the root through exactly
\* one child link: the root through none, no node is shared, orphaned or
\* on a cycle.
C11_ParentLinks ==
    pc = "live" =>
        /\ root # NULL => (heap[root].parent = NULL /\ LinksTo(heap, root) = {})
        /\ \A n \in Subtree(heap, root) :
              /\ heap[n].left # NULL => heap[heap[n].left].parent = n
              /\ heap[n].right # NULL => heap[heap[n].right].parent = n
        /\ {a \in Addr : heap[a].alloc} = Subtree(heap, root)
        /\ \A n \in Subtree(heap, root) \ {root} :
              Cardinality(LinksTo(heap, n)) = 1

\* a recolouring went up the tree and the left-left rotation that followed
\* moved a non-empty subtree from the parent to the grandparent
C11_Witness ==
    /\ pc = "live"
    /\ op.name = "addToRBTree" /\ op.ret = SUCCESS
    /\ calls = <<"recolour", "leftLeftSwitch">>
    /\ \E g \in Subtree(heap, root) :
          /\ heap[g].color = RED
          /\ heap[g].left # NULL /\ heap[g].right # NULL
          /\ heap[heap[g].left].color = BLACK
          /\ heap[heap[g].left].left # NULL
====
